---------------------------- MODULE Spec2Model ----------------------------
(***************************************************************************)
(* Model of godb's condition engine (condition.go), raw SQL execution      *)
(* (raw_sql.go) and the DB facade (godb.go).                               *)
(*                                                                         *)
(* Go strings are sequences of one-character strings, so that              *)
(* strings.Count, strings.Index, slicing and buffer writes are computed    *)
(* as the code computes them.                                              *)
(***************************************************************************)
EXTENDS Integers, Sequences, FiniteSets, TLC

VARIABLES
    pending,    \* the Q call about to be made: its fragment and arguments
    held,       \* the *Condition the caller currently holds
    last,       \* the last condition-engine call: operation, inputs, outcome
    db,         \* the DB objects: the one Open / Wrap made, and its clone
    caches,     \* the StmtCache objects the DB objects point to
    connOpen,   \* whether the shared *sql.DB is still open
    dbLast      \* the last call made on a DB object: inputs and outcome

vars == <<pending, held, last, db, caches, connOpen, dbLast>>

----------------------------------------------------------------------------
(* Bounds of the exploration *)

\* longest SQL fragment handed to Q
MaxSqlLen == 3
\* most arguments handed to Q
MaxArgs == 2
\* longest slice handed to Q as one argument
MaxSliceLen == 2
\* most conditions handed to one And / Or call
MaxArity == 2
\* longest fragment a composed Condition may reach
MaxFragLen == 16

\* largest cumulative consumed time followed (in clock ticks)
MaxTime == 3
\* longest single execution (in clock ticks)
MaxElapsed == 2
\* most rows one statement returns
MaxRows == 2
\* largest statement-cache size a caller sets (a new cache has
\* DefaultCacheSize)
MaxCacheSize == 1

\* opaque argument values
Vals == {"u", "v"}
\* characters of the fragments handed to Q
SqlChars == {"a", "?"}

----------------------------------------------------------------------------
(* godb.go: Placeholder *)

Placeholder == "?"

----------------------------------------------------------------------------
(* Go standard library, as used by condition.go *)

\* all sequences over S of length at most n
SeqUpTo(S, n) == UNION {[1..k -> S] : k \in 0..n}

\* strings.Count(s, Placeholder) for the one-character Placeholder
RECURSIVE Count(_)
Count(s) ==
    IF s = <<>> THEN 0
    ELSE (IF Head(s) = Placeholder THEN 1 ELSE 0) + Count(Tail(s))

\* strings.Index(s, Placeholder): 0-based byte offset, -1 when absent
RECURSIVE IndexFrom(_, _)
IndexFrom(s, i) ==
    IF i > Len(s) THEN -1
    ELSE IF s[i] = Placeholder THEN i - 1
    ELSE IndexFrom(s, i + 1)

Index(s) == IndexFrom(s, 1)

\* strings.Repeat(s, n)
RECURSIVE Repeat(_, _)
Repeat(s, n) == IF n <= 0 THEN <<>> ELSE s \o Repeat(s, n - 1)

\* s[:pos] and s[pos:] with Go's 0-based offsets
Prefix(s, pos) == SubSeq(s, 1, pos)
Suffix(s, pos) == SubSeq(s, pos + 1, Len(s))

----------------------------------------------------------------------------
(* condition.go: Condition and the arguments of Q *)

\* a nil error
NoErr == [kind |-> "nil", sql |-> <<>>]

\* fmt.Errorf("... in condition %s", sql): the message kind and the fragment
Errorf(kind, sql) == [kind |-> kind, sql |-> sql]

\* Condition{}: the zero value
ZeroCondition == [err |-> NoErr, sql |-> <<>>, args |-> <<>>]

\* an interface{} argument: untyped nil, a non-slice value, or a slice
NilArg == [kind |-> "nil", v |-> "", elems |-> <<>>]
ScalarArg(x) == [kind |-> "scalar", v |-> x, elems |-> <<>>]
SliceArg(es) == [kind |-> "slice", v |-> "", elems |-> es]

ArgVals ==
    {NilArg} \cup {ScalarArg(x) : x \in Vals}
             \cup {SliceArg(es) : es \in SeqUpTo(Vals, MaxSliceLen)}

\* QLoop repeating ",?" once too often for a slice
RECURSIVE QLoopRepeatsTooOften(_, _, _, _, _)
QLoopRepeatsTooOften(sql, args, remainingSQL, buffer, c) ==
    IF args = <<>> THEN [c EXCEPT !.sql = buffer \o remainingSQL]
    ELSE
        LET arg == Head(args)
            placeholderPos == Index(remainingSQL)
            written == buffer \o Prefix(remainingSQL, placeholderPos)
            rest == Suffix(remainingSQL, placeholderPos + 1)
        IN
        IF arg.kind = "nil" THEN
            [c EXCEPT !.err = Errorf("using nil as argument", sql)]
        ELSE IF arg.kind = "slice" /\ arg.elems = <<>> THEN
            [c EXCEPT !.err = Errorf("empty slice used as argument", sql)]
        ELSE IF arg.kind = "slice" THEN
            QLoopRepeatsTooOften(sql, Tail(args), rest,
                written \o <<Placeholder>>
                        \o Repeat(<<",", Placeholder>>, Len(arg.elems)),
                [c EXCEPT !.args = @ \o arg.elems])
        ELSE
            QLoopRepeatsTooOften(sql, Tail(args), rest,
                written \o <<Placeholder>>,
                [c EXCEPT !.args = Append(@, arg.v)])

\* what the loop of Q has built when it stops
\* (condition.go lines 38-66: one iteration per argument)
RECURSIVE QLoop(_, _, _, _, _)
QLoop(sql, args, remainingSQL, buffer, c) ==
    IF args = <<>> THEN
        \* lines 67-70
        [c EXCEPT !.sql = buffer \o remainingSQL]
    ELSE
        LET arg == Head(args) IN
        IF arg.kind = "nil" THEN
            [c EXCEPT !.err = Errorf("using nil as argument", sql)]
        ELSE
            LET placeholderPos == Index(remainingSQL)
                written == buffer \o Prefix(remainingSQL, placeholderPos)
                rest == Suffix(remainingSQL, placeholderPos + 1)
            IN
            IF arg.kind = "slice" THEN
                LET length == Len(arg.elems) IN
                IF length = 0 THEN
                    [c EXCEPT !.err = Errorf("empty slice used as argument", sql)]
                ELSE
                    QLoop(sql, Tail(args), rest,
                          written \o <<Placeholder>>
                                  \o Repeat(<<",", Placeholder>>, length - 1),
                          [c EXCEPT !.args = @ \o arg.elems])
            ELSE
                QLoop(sql, Tail(args), rest,
                      written \o <<Placeholder>>,
                      [c EXCEPT !.args = Append(@, arg.v)])

\* Q without the comparison of placeholders and arguments
QWithoutCountCheck(sql, args) == QLoop(sql, args, sql, <<>>, ZeroCondition)

\* Q(sql, args...)
Q(sql, args) ==
    IF Count(sql) # Len(args) THEN
        [ZeroCondition EXCEPT !.err = Errorf("wrong number of arguments", sql)]
    ELSE
        QLoop(sql, args, sql, <<>>, ZeroCondition)

----------------------------------------------------------------------------
(* condition.go: And, Or, Not and their helpers *)

\* the literals written by And, Or and Not
AndConjunction == <<" ", "A", "N", "D", " ">>
OrConjunction == <<" ", "O", "R", " ">>
OpenParen == <<"(">>
CloseParen == <<")">>
NotOpen == <<"N", "O", "T", " ", "(">>

\* sumOfConditionsLengths: the sums over the conditions before position i,
\* or the first error found
RECURSIVE sumLoop(_, _, _, _)
sumLoop(conditions, i, sqlLength, argsLength) ==
    IF i > Len(conditions) THEN
        [sqlLength |-> sqlLength, argsLength |-> argsLength, err |-> NoErr]
    ELSE IF conditions[i].err # NoErr THEN
        [sqlLength |-> 0, argsLength |-> 0, err |-> conditions[i].err]
    ELSE
        sumLoop(conditions, i + 1,
                sqlLength + Len(conditions[i].sql),
                argsLength + Len(conditions[i].args))

\* sumOfConditionsLengths reporting the last error instead of the first
sumOfConditionsLengthsLastError(conditions) ==
    LET first == sumLoop(conditions, 1, 0, 0)
        bad == {i \in 1..Len(conditions) : conditions[i].err # NoErr}
    IN IF bad = {} THEN first
       ELSE [first EXCEPT
                !.err = conditions[CHOOSE i \in bad : \A k \in bad : k <= i].err]

sumOfConditionsLengths(conditions) == sumLoop(conditions, 1, 0, 0)

\* joinSQL: the buffer after the conditions from position i on are written
RECURSIVE joinSQLLoop(_, _, _, _, _)
joinSQLLoop(buffer, conjunction, conditions, i, firstCondition) ==
    IF i > Len(conditions) THEN buffer
    ELSE
        joinSQLLoop(
            (IF ~firstCondition THEN buffer \o conjunction ELSE buffer)
                \o conditions[i].sql,
            conjunction, conditions, i + 1, FALSE)

joinSQL(buffer, conjunction, conditions) ==
    joinSQLLoop(buffer, conjunction, conditions, 1, TRUE)

\* joinArgs: args with the arguments of the conditions from position i on
RECURSIVE joinArgsLoop(_, _, _)
joinArgsLoop(args, conditions, i) ==
    IF i > Len(conditions) THEN args
    ELSE joinArgsLoop(args \o conditions[i].args, conditions, i + 1)

\* joinArgs putting each condition's arguments in front of the earlier ones
RECURSIVE joinArgsReversedLoop(_, _, _)
joinArgsReversedLoop(args, conditions, i) ==
    IF i > Len(conditions) THEN args
    ELSE joinArgsReversedLoop(conditions[i].args \o args, conditions, i + 1)

joinArgsReversed(args, conditions) == joinArgsReversedLoop(args, conditions, 1)

joinArgs(args, conditions) == joinArgsLoop(args, conditions, 1)

\* How a call ends.  kind "return": the call returns the *Condition c, which
\* is the input at position alias when alias > 0 and a newly allocated value
\* when alias = 0.  kind "panic": the call aborts.  capacity is the capacity
\* asked of make() for the SQL buffer (0 when no buffer is made).
Return(c, alias, capacity) ==
    [kind |-> "return", c |-> c, alias |-> alias, capacity |-> capacity]
Panic(capacity) ==
    [kind |-> "panic", c |-> ZeroCondition, alias |-> 0, capacity |-> capacity]

\* make([]byte, 0, capacity) panics at run time on a negative capacity
\* ("makeslice: cap out of range")
MakeSucceeds(capacity) == capacity >= 0

\* And(conditions...)
And(conditions) ==
    IF Len(conditions) = 1 THEN Return(conditions[1], 1, 0)
    ELSE
        LET sums == sumOfConditionsLengths(conditions) IN
        IF sums.err # NoErr THEN
            Return([ZeroCondition EXCEPT !.err = sums.err], 0, 0)
        ELSE
            LET sqlLength == sums.sqlLength + 5 * (Len(conditions) - 1) IN
            IF ~MakeSucceeds(sqlLength) THEN Panic(sqlLength)
            ELSE
                Return([err |-> NoErr,
                        sql |-> joinSQL(<<>>, AndConjunction, conditions),
                        args |-> joinArgs(<<>>, conditions)],
                       0, sqlLength)

\* Or without the surrounding parentheses
OrWithoutParentheses(conditions) ==
    IF Len(conditions) = 1 THEN Return(conditions[1], 1, 0)
    ELSE
        LET sums == sumOfConditionsLengths(conditions) IN
        IF sums.err # NoErr THEN
            Return([ZeroCondition EXCEPT !.err = sums.err], 0, 0)
        ELSE
            LET sqlLength == sums.sqlLength + 4 * (Len(conditions) - 1) IN
            IF ~MakeSucceeds(sqlLength) THEN Panic(sqlLength)
            ELSE
                Return([err |-> NoErr,
                        sql |-> joinSQL(<<>>, OrConjunction, conditions),
                        args |-> joinArgs(<<>>, conditions)],
                       0, sqlLength)

\* Or(conditions...)
Or(conditions) ==
    IF Len(conditions) = 1 THEN Return(conditions[1], 1, 0)
    ELSE
        LET sums == sumOfConditionsLengths(conditions) IN
        IF sums.err # NoErr THEN
            Return([ZeroCondition EXCEPT !.err = sums.err], 0, 0)
        ELSE
            LET sqlLength == sums.sqlLength + 2 + 4 * (Len(conditions) - 1) IN
            IF ~MakeSucceeds(sqlLength) THEN Panic(sqlLength)
            ELSE
                Return([err |-> NoErr,
                        sql |-> joinSQL(OpenParen, OrConjunction, conditions)
                                    \o CloseParen,
                        args |-> joinArgs(<<>>, conditions)],
                       0, sqlLength)

\* Not(condition)
Not(condition) ==
    IF condition.err # NoErr THEN Return(condition, 1, 0)
    ELSE
        Return([err |-> NoErr,
                sql |-> NotOpen \o condition.sql \o CloseParen,
                args |-> condition.args],
               0, 6 + Len(condition.sql))

----------------------------------------------------------------------------
(* The condition engine as a state machine.                                 *)
(* SpecQ applies Q once to inputs drawn in the initial state.               *)
(* SpecCond lets a caller hold one Condition and build new ones from it and *)
(* from freshly built leaves, Q(...), with And, Or and Not, to any depth    *)
(* the fragment bound allows.                                               *)

SqlStrings == SeqUpTo(SqlChars, MaxSqlLen)
ArgLists == SeqUpTo(ArgVals, MaxArgs)

NoCall ==
    [op |-> "none", sql |-> <<>>, args |-> <<>>, ins |-> <<>>,
     out |-> Return(ZeroCondition, 0, 0)]

\* the caller keeps the Condition a call returned; a panic returns nothing
Keep(out) == IF out.kind = "return" THEN out.c ELSE held

CallQ(sql, args) ==
    LET out == Return(Q(sql, args), 0, Len(sql)) IN
    /\ held' = Keep(out)
    /\ last' = [op |-> "Q", sql |-> sql, args |-> args, ins |-> <<>>, out |-> out]
    /\ UNCHANGED <<pending, db, caches, connOpen, dbLast>>

Compose(op, ins, out) ==
    /\ out.kind = "return" => Len(out.c.sql) <= MaxFragLen
    /\ held' = Keep(out)
    /\ last' = [op |-> op, sql |-> <<>>, args |-> <<>>, ins |-> ins, out |-> out]
    /\ UNCHANGED <<pending, db, caches, connOpen, dbLast>>

CallAnd(ins) == Compose("And", ins, And(ins))
CallOr(ins) == Compose("Or", ins, Or(ins))
CallNot(in) == Compose("Not", <<in>>, Not(in))

\* the Q calls a caller writes in place, as in And(c, Q("?", x)): two
\* well-formed ones and two that Q reports an error for
LeafCalls ==
    {[sql |-> <<"?">>, args |-> <<ScalarArg("u")>>],
     [sql |-> <<"?">>, args |-> <<SliceArg(<<"v", "u">>)>>],
     [sql |-> <<"?">>, args |-> <<NilArg>>],
     [sql |-> <<"?", "?">>, args |-> <<ScalarArg("v"), SliceArg(<<>>)>>]}
Leaves == {Q(call.sql, call.args) : call \in LeafCalls}

\* the lists of Conditions a caller can pass to And / Or
Operands == {held} \cup Leaves
OperandLists == SeqUpTo(Operands, MaxArity)

OthersInit == db = <<>> /\ caches = <<>> /\ connOpen = TRUE /\ dbLast = <<>>

QInit ==
    /\ pending \in [sql : SqlStrings, args : ArgLists]
    /\ held = ZeroCondition
    /\ last = NoCall

\* Q is called once, on the inputs drawn
QNext == last.op = "none" /\ CallQ(pending.sql, pending.args)

InitQ == QInit /\ OthersInit

SpecQ == InitQ /\ [][QNext]_vars

CondInit ==
    /\ pending = [sql |-> <<>>, args |-> <<>>]
    /\ held = Q(<<>>, <<>>)
    /\ last = NoCall

CondNext ==
    \/ \E call \in LeafCalls : CallQ(call.sql, call.args)
    \/ \E ins \in OperandLists : CallAnd(ins)
    \/ \E ins \in OperandLists : CallOr(ins)
    \/ \E in \in Operands : CallNot(in)

InitCond == CondInit /\ OthersInit

SpecCond == InitCond /\ [][CondNext]_vars

----------------------------------------------------------------------------
(* Reference definitions the claims are stated with *)

\* the argument is an empty slice
IsEmptySlice(arg) == arg.kind = "slice" /\ arg.elems = <<>>

\* n_i: the placeholders the i-th argument stands for
Width(arg) == IF arg.kind = "slice" THEN Len(arg.elems) ELSE 1

\* k placeholders joined by ","
RECURSIVE Placeholders(_)
Placeholders(k) ==
    IF k <= 1 THEN <<Placeholder>>
    ELSE <<Placeholder, ",">> \o Placeholders(k - 1)

\* the fragment read character by character, each placeholder replaced by
\* the placeholders of the next argument
RECURSIVE Expanded(_, _)
Expanded(sql, args) ==
    IF sql = <<>> THEN <<>>
    ELSE IF Head(sql) = Placeholder /\ args # <<>> THEN
        Placeholders(Width(Head(args))) \o Expanded(Tail(sql), Tail(args))
    ELSE <<Head(sql)>> \o Expanded(Tail(sql), args)

\* the left-to-right flattening of the arguments
RECURSIVE Flattened(_)
Flattened(args) ==
    IF args = <<>> THEN <<>>
    ELSE (IF Head(args).kind = "slice" THEN Head(args).elems
          ELSE <<Head(args).v>>) \o Flattened(Tail(args))

RECURSIVE SumWidths(_)
SumWidths(args) ==
    IF args = <<>> THEN 0 ELSE Width(Head(args)) + SumWidths(Tail(args))

WellFormedCall(sql, args) ==
    /\ Count(sql) = Len(args)
    /\ \A i \in 1..Len(args) : args[i].kind # "nil" /\ ~IsEmptySlice(args[i])

\* the fragments of cs joined by sep, built from the right
RECURSIVE JoinedSql(_, _)
JoinedSql(cs, sep) ==
    IF Len(cs) = 0 THEN <<>>
    ELSE IF Len(cs) = 1 THEN cs[1].sql
    ELSE JoinedSql(SubSeq(cs, 1, Len(cs) - 1), sep) \o sep \o cs[Len(cs)].sql

\* the argument lists of cs concatenated, built from the right
RECURSIVE JoinedArgs(_)
JoinedArgs(cs) ==
    IF Len(cs) = 0 THEN <<>>
    ELSE JoinedArgs(SubSeq(cs, 1, Len(cs) - 1)) \o cs[Len(cs)].args

Poisoned(c) == c.err # NoErr
AnyPoisoned(cs) == \E i \in 1..Len(cs) : Poisoned(cs[i])
FirstPoisoned(cs) ==
    CHOOSE i \in 1..Len(cs) :
        Poisoned(cs[i]) /\ \A k \in 1..(i - 1) : ~Poisoned(cs[k])

\* the placeholders in the fragments of cs before position i
RECURSIVE PlaceholdersBefore(_, _)
PlaceholdersBefore(cs, i) ==
    IF i <= 1 THEN 0
    ELSE PlaceholdersBefore(cs, i - 1) + Count(cs[i - 1].sql)

----------------------------------------------------------------------------
(* Claims about Q, checked under SpecQ *)

\* C1: for a fragment with exactly k placeholders and k non-nil arguments,
\* none an empty slice, Q returns a non-poisoned Condition whose fragment is
\* the input with the i-th placeholder replaced by n_i placeholders joined
\* by "," and all other text unchanged, and whose argument list is the
\* left-to-right flattening of the arguments, of length the sum of the n_i.
C1_QExpandsPlaceholders ==
    (last.op = "Q" /\ WellFormedCall(last.sql, last.args)) =>
        /\ last.out.kind = "return"
        /\ last.out.c.err = NoErr
        /\ last.out.c.sql = Expanded(last.sql, last.args)
        /\ last.out.c.args = Flattened(last.args)
        /\ Len(last.out.c.args) = SumWidths(last.args)

\* Q has expanded a slice of two elements next to a scalar argument
C1_Witness ==
    /\ last.op = "Q"
    /\ WellFormedCall(last.sql, last.args)
    /\ \E i, j \in 1..Len(last.args) :
           /\ last.args[i].kind = "scalar"
           /\ last.args[j].kind = "slice" /\ Len(last.args[j].elems) = 2
    /\ \E i \in 1..Len(last.sql) : last.sql[i] # Placeholder

\* C4: Q returns normally, and the Condition it returns carries an error
\* exactly when the number of placeholders differs from the number of
\* arguments, or some argument is nil, or some argument is an empty slice.
C4_QReportsErrorsAsData ==
    last.op = "Q" =>
        /\ last.out.kind = "return"
        /\ Poisoned(last.out.c) <=>
               \/ Count(last.sql) # Len(last.args)
               \/ \E i \in 1..Len(last.args) : last.args[i].kind = "nil"
               \/ \E i \in 1..Len(last.args) : IsEmptySlice(last.args[i])

\* Q has reported an empty slice that follows an accepted argument
C4_Witness ==
    /\ last.op = "Q"
    /\ Count(last.sql) = Len(last.args)
    /\ Len(last.args) = 2
    /\ last.args[1].kind = "scalar"
    /\ IsEmptySlice(last.args[2])
    /\ Poisoned(last.out.c)

----------------------------------------------------------------------------
(* Claims about And, Or and Not, checked under SpecCond *)

\* C2: with exactly one input And and Or return that same Condition
\* unchanged; with n >= 2 non-poisoned inputs And yields the fragments
\* joined by " AND " without parentheses, Or yields "(" + the fragments
\* joined by " OR " + ")", and the argument list is the concatenation of the
\* inputs' argument lists in the order of the fragments.
C2_AndOrReference ==
    (last.op \in {"And", "Or"} /\ Len(last.ins) >= 1) =>
        /\ Len(last.ins) = 1 =>
               /\ last.out.kind = "return"
               /\ last.out.alias = 1
               /\ last.out.c = last.ins[1]
        /\ (Len(last.ins) >= 2 /\ ~AnyPoisoned(last.ins)) =>
               /\ last.out.kind = "return"
               /\ last.out.c.err = NoErr
               /\ last.op = "And" =>
                      last.out.c.sql = JoinedSql(last.ins, AndConjunction)
               /\ last.op = "Or" =>
                      last.out.c.sql =
                          OpenParen \o JoinedSql(last.ins, OrConjunction)
                                    \o CloseParen
               /\ last.out.c.args = JoinedArgs(last.ins)

\* Or has joined two different non-poisoned Conditions that carry arguments
C2_Witness ==
    /\ last.op = "Or"
    /\ Len(last.ins) = 2
    /\ ~AnyPoisoned(last.ins)
    /\ last.ins[1].args # <<>> /\ last.ins[2].args # <<>>
    /\ last.ins[1] # last.ins[2]
    /\ last.out.kind = "return"

\* C3: if an input of And, Or or Not carries an error, the result's error
\* is the error of the first poisoned input in argument order, and nothing
\* is built for the result: it is either the poisoned input itself, returned
\* as it is (Not, and And / Or with one input), or a new Condition with an
\* empty fragment and an empty argument list.
C3_PoisonPropagates ==
    (last.op \in {"And", "Or", "Not"} /\ AnyPoisoned(last.ins)) =>
        /\ last.out.kind = "return"
        /\ last.out.c.err = last.ins[FirstPoisoned(last.ins)].err
        /\ last.out.c.sql = <<>>
        /\ \/ last.out.alias = 0 /\ last.out.c.args = <<>>
           \/ /\ last.out.alias = 1
              /\ Len(last.ins) = 1
              /\ last.out.c = last.ins[1]

\* And / Or got two poisoned inputs with different errors, the first one
\* carrying the arguments Q had accepted before it found the error
C3_Witness ==
    /\ last.op \in {"And", "Or"}
    /\ Len(last.ins) = 2
    /\ Poisoned(last.ins[1]) /\ Poisoned(last.ins[2])
    /\ last.ins[1].err # last.ins[2].err
    /\ last.ins[1].args # <<>>
    /\ Poisoned(last.out.c)

\* C9: in every non-poisoned Condition built from Q, And, Or and Not the
\* number of placeholders of the fragment equals the number of arguments,
\* and the arguments follow the placeholders: the arguments of the i-th
\* input of And / Or sit behind those of the inputs before it, at the
\* offset given by the placeholders of the fragments before it; Not wraps
\* the fragment in "NOT (" and ")" and leaves the argument list unchanged.
C9_ArgsAlignedWithPlaceholders ==
    /\ ~Poisoned(held) => Count(held.sql) = Len(held.args)
    /\ (last.op \in {"And", "Or"} /\ last.out.kind = "return"
            /\ ~Poisoned(last.out.c)) =>
           /\ Count(last.out.c.sql) = Len(last.out.c.args)
           /\ \A i \in 1..Len(last.ins) :
                  \A p \in 1..Count(last.ins[i].sql) :
                      /\ PlaceholdersBefore(last.ins, i) + p
                             \in 1..Len(last.out.c.args)
                      /\ last.out.c.args[PlaceholdersBefore(last.ins, i) + p]
                             = last.ins[i].args[p]
    /\ (last.op = "Not" /\ ~Poisoned(last.out.c)) =>
           /\ last.out.c.sql = NotOpen \o last.ins[1].sql \o CloseParen
           /\ last.out.c.args = last.ins[1].args
           /\ Count(last.out.c.sql) = Len(last.out.c.args)

\* And has joined a composed Condition with a leaf, both with arguments,
\* whose argument lists differ
C9_Witness ==
    /\ last.op = "And"
    /\ Len(last.ins) = 2
    /\ ~AnyPoisoned(last.ins)
    /\ Len(last.ins[1].args) >= 2 /\ Len(last.ins[2].args) >= 1
    /\ last.ins[1].args \o last.ins[2].args # last.ins[2].args \o last.ins[1].args
    /\ \E i \in 1..Len(last.ins[1].sql) : last.ins[1].sql[i] = "("
    /\ last.out.kind = "return"

\* C10: every call of And or Or, on a list of any length including the
\* empty list, returns a Condition and never aborts, and the buffer
\* capacity it computes is never negative.
C10_CompositionNeverPanics ==
    last.op \in {"And", "Or"} =>
        /\ last.out.kind = "return"
        /\ last.out.capacity >= 0

----------------------------------------------------------------------------
(* The statement cache.  Its code is not among the sources; it is modelled  *)
(* from the description of its operations: enable / disable, set capacity,  *)
(* get-or-prepare, clear-all.                                               *)

\* the SQL texts executed
SqlTexts == {"select"}

\* the size of a new cache (the sources do not give its value; any size a
\* caller can change will do)
DefaultCacheSize == 2

\* newStmtCache(): an enabled, empty cache
newStmtCache == [enabled |-> TRUE, size |-> DefaultCacheSize, stmts |-> {}]

\* the contents a cache holding stmts may have after its size is set
Trimmed(stmts, size) ==
    IF Cardinality(stmts) <= size THEN {stmts}
    ELSE {t \in SUBSET stmts : Cardinality(t) = size}

\* get-or-prepare: the contents a cache may have after text was prepared
\* through it: a disabled cache retains nothing, an enabled one keeps the
\* handle, evicting when it is full
Retained(cache, text) ==
    IF ~cache.enabled \/ text \in cache.stmts THEN {cache.stmts}
    ELSE IF Cardinality(cache.stmts) < cache.size THEN {cache.stmts \cup {text}}
    ELSE {(cache.stmts \ {old}) \cup {text} : old \in cache.stmts}

\* StmtCache.Clear: releases every handle held
StmtCacheClear(cache) == [cache EXCEPT !.stmts = {}]

----------------------------------------------------------------------------
(* godb.go: DB *)

\* the two DB objects followed: the one initialize made and its clone
Original == "original"
TheClone == "clone"
DBIds == {Original, TheClone}

\* error values
NilError == "nil"
ErrNoRows == "sql: no rows in result set"
ErrTxDone == "sql: transaction has already been committed or rolled back"
DriverError == "driver error"
BuildError == "record description error"

\* a DB object that does not exist (yet)
NoDB ==
    [live |-> FALSE, sqlTx |-> "nil", consumedTime |-> 0,
     stmtCacheDB |-> 0, stmtCacheTx |-> 0]

\* initialize: a DB with no transaction, no consumed time, two new caches,
\* the ad-hoc one disabled.  heap is the StmtCache objects allocated so far;
\* the new caches are the objects at and at + 1.
initialize(heap, at) ==
    [obj |-> [live |-> TRUE, sqlTx |-> "nil", consumedTime |-> 0,
              stmtCacheDB |-> at, stmtCacheTx |-> at + 1],
     heap |-> [heap EXCEPT ![at] = [newStmtCache EXCEPT !.enabled = FALSE],
                           ![at + 1] = newStmtCache]]

\* Clone leaving its new caches as newStmtCache made them
CloneWithDefaultCaches(d, heap, at) ==
    [obj |-> [live |-> TRUE, sqlTx |-> "nil", consumedTime |-> 0,
              stmtCacheDB |-> at, stmtCacheTx |-> at + 1],
     heap |-> [heap EXCEPT ![at] = newStmtCache, ![at + 1] = newStmtCache]]

\* DB.Clone: the clone of d and the heap after it; the clone's new caches
\* are the objects at and at + 1
Clone(d, heap, at) ==
    LET clone == [live |-> TRUE, sqlTx |-> "nil", consumedTime |-> 0,
                  stmtCacheDB |-> at, stmtCacheTx |-> at + 1]
        h0 == [heap EXCEPT ![clone.stmtCacheDB] = newStmtCache,
                           ![clone.stmtCacheTx] = newStmtCache]
        \* clone.stmtCacheDB.SetSize(db.stmtCacheDB.GetSize())
        h1 == [h0 EXCEPT ![clone.stmtCacheDB].size = h0[d.stmtCacheDB].size]
        \* if !db.stmtCacheDB.IsEnabled() { clone.stmtCacheDB.Disable() }
        h2 == IF ~h1[d.stmtCacheDB].enabled
              THEN [h1 EXCEPT ![clone.stmtCacheDB].enabled = FALSE] ELSE h1
        h3 == [h2 EXCEPT ![clone.stmtCacheTx].size = h2[d.stmtCacheTx].size]
        h4 == IF ~h3[d.stmtCacheTx].enabled
              THEN [h3 EXCEPT ![clone.stmtCacheTx].enabled = FALSE] ELSE h3
    IN [obj |-> clone, heap |-> h4]

\* sql.Tx.Rollback on the transaction d points to: a finished transaction
\* answers ErrTxDone; an open one is finished, whatever the driver answers
TxRollbackOutcomes(d) ==
    IF d.sqlTx = "done" THEN {ErrTxDone} ELSE {NilError, DriverError}

\* DB.Clear, given what Rollback answers: the object, the heap and the
\* error returned
Clear(d, heap, rollbackErr) ==
    LET rolled == IF d.sqlTx # "nil" THEN [d EXCEPT !.sqlTx = "done"] ELSE d IN
    IF d.sqlTx # "nil" /\ rollbackErr # NilError THEN
        [obj |-> rolled, heap |-> heap, err |-> rollbackErr]
    ELSE
        [obj |-> rolled,
         heap |-> [heap EXCEPT ![d.stmtCacheDB] = StmtCacheClear(@)],
         err |-> NilError]

\* DB.ResetConsumedTime
ResetConsumedTime(d) == [d EXCEPT !.consumedTime = 0]

\* addConsumedTime assigning instead of adding
addConsumedTimeOverwrite(d, duration) == [d EXCEPT !.consumedTime = duration]

\* DB.addConsumedTime
addConsumedTime(d, duration) == [d EXCEPT !.consumedTime = @ + duration]

----------------------------------------------------------------------------
(* raw_sql.go: RawSQL.Do *)

\* Do answering "no rows" whatever the record is
DoNoRowsForAnyRecord(buildErr, isSlice, rowsCount, execErr) ==
    IF buildErr # NilError THEN buildErr
    ELSE IF execErr # NilError THEN execErr
    ELSE IF rowsCount = 0 THEN ErrNoRows
    ELSE NilError

\* The error Do returns, given what buildRecordDescription answers (its
\* error and whether the record is a slice) and what doSelectOrWithReturning
\* answers (the rows counted and its error).
Do(buildErr, isSlice, rowsCount, execErr) ==
    IF buildErr # NilError THEN buildErr
    ELSE IF execErr # NilError THEN execErr
    ELSE IF ~isSlice /\ rowsCount = 0 THEN ErrNoRows
    ELSE NilError

----------------------------------------------------------------------------
(* The DB facade as a state machine.  Each operation is given as its effect *)
(* on the objects and, in SpecDB, the record of the call made.              *)

NoDBCall ==
    [op |-> "none", on |-> Original, err |-> NilError, duration |-> 0,
     isSlice |-> FALSE, buildErr |-> NilError, execErr |-> NilError,
     rowsCount |-> 0, appended |-> 0, connWas |-> TRUE]

Called(op, d) == [NoDBCall EXCEPT !.op = op, !.on = d, !.connWas = connOpen]

CondIdle == UNCHANGED <<pending, held, last>>

\* Open / Wrap have made the original; no clone exists
DBInit ==
    LET made == initialize([i \in 1..4 |-> newStmtCache], 1) IN
    /\ db = [i \in DBIds |-> IF i = Original THEN made.obj ELSE NoDB]
    /\ caches = made.heap
    /\ connOpen = TRUE
    /\ dbLast = NoDBCall

\* the original is cloned; a clone made earlier is dropped by the caller
CloneEffect ==
    LET made == Clone(db[Original], caches, 3) IN
    /\ db' = [db EXCEPT ![TheClone] = made.obj]
    /\ caches' = made.heap
    /\ UNCHANGED connOpen
    /\ CondIdle

\* Begin (not among the sources): a transaction is opened on d
BeginEffect(d) ==
    /\ db[d].live /\ db[d].sqlTx = "nil" /\ connOpen
    /\ db' = [db EXCEPT ![d].sqlTx = "open"]
    /\ UNCHANGED <<caches, connOpen>>
    /\ CondIdle

\* the cache the execution pipeline uses for d: the transaction's while d
\* has a transaction, the ad-hoc one otherwise
SelectedCache(d) ==
    IF db[d].sqlTx # "nil" THEN db[d].stmtCacheTx ELSE db[d].stmtCacheDB

\* the statement can be run: the connection is open and the transaction, if
\* there is one, is not finished
CanRun(d) == connOpen /\ db[d].sqlTx # "done"

\* RawSQL.Do on d.  buildRecordDescription fails or tells whether the record
\* is a slice; the pipeline (doSelectOrWithReturning, not among the
\* sources) prepares the statement through the selected cache, runs it,
\* appends the rows it read to the record and adds the elapsed time to d
\* whether the statement failed or not.
DoEffect(d, text, buildErr, isSlice, rowsCount, execErr, duration) ==
    /\ db[d].live
    /\ buildErr # NilError => (rowsCount = 0 /\ execErr = NilError /\ duration = 0)
    /\ (buildErr = NilError /\ ~CanRun(d)) => execErr # NilError
    /\ execErr = ErrTxDone <=> (buildErr = NilError /\ db[d].sqlTx = "done")
    /\ db[d].consumedTime + duration <= MaxTime
    /\ IF buildErr # NilError THEN UNCHANGED <<db, caches>>
       ELSE /\ db' = [db EXCEPT ![d] = addConsumedTime(@, duration)]
            /\ IF CanRun(d)
               THEN \E kept \in Retained(caches[SelectedCache(d)], text) :
                        caches' = [caches EXCEPT ![SelectedCache(d)].stmts = kept]
               ELSE UNCHANGED caches
    /\ UNCHANGED connOpen
    /\ CondIdle

\* DB.Clear on d, Rollback answering rollbackErr
ClearEffect(d, rollbackErr) ==
    LET done == Clear(db[d], caches, rollbackErr) IN
    /\ db[d].live
    /\ rollbackErr \in TxRollbackOutcomes(db[d])
    /\ db[d].sqlTx = "nil" => rollbackErr = NilError
    /\ db' = [db EXCEPT ![d] = done.obj]
    /\ caches' = done.heap
    /\ UNCHANGED connOpen
    /\ CondIdle

\* DB.Close: Clear, its error dropped, then the shared *sql.DB is closed
CloseEffect(d, rollbackErr) ==
    LET done == Clear(db[d], caches, rollbackErr) IN
    /\ db[d].live /\ connOpen
    /\ rollbackErr \in TxRollbackOutcomes(db[d])
    /\ db[d].sqlTx = "nil" => rollbackErr = NilError
    /\ db' = [db EXCEPT ![d] = done.obj]
    /\ caches' = done.heap
    /\ connOpen' = FALSE
    /\ CondIdle

ResetEffect(d) ==
    /\ db[d].live
    /\ db' = [db EXCEPT ![d] = ResetConsumedTime(@)]
    /\ UNCHANGED <<caches, connOpen>>
    /\ CondIdle

\* the caller enables or disables one of d's caches
SetEnabledEffect(d, id, flag) ==
    /\ db[d].live /\ id \in {db[d].stmtCacheDB, db[d].stmtCacheTx}
    /\ caches[id].enabled # flag
    /\ caches' = [caches EXCEPT ![id].enabled = flag]
    /\ UNCHANGED <<db, connOpen>>
    /\ CondIdle

\* the caller sets the size of one of d's caches
SetSizeEffect(d, id, size) ==
    /\ db[d].live /\ id \in {db[d].stmtCacheDB, db[d].stmtCacheTx}
    /\ caches[id].size # size
    /\ \E kept \in Trimmed(caches[id].stmts, size) :
           caches' = [caches EXCEPT ![id].size = size, ![id].stmts = kept]
    /\ UNCHANGED <<db, connOpen>>
    /\ CondIdle

RollbackAnswers == {NilError, DriverError, ErrTxDone}
ExecAnswers == {NilError, DriverError, ErrTxDone}
CacheIds == 1..4

(* SpecDB: one DB object, every call recorded in dbLast *)

CallBegin(d) == BeginEffect(d) /\ dbLast' = Called("Begin", d)

CallDo(d, text, buildErr, isSlice, rowsCount, execErr, duration) ==
    /\ DoEffect(d, text, buildErr, isSlice, rowsCount, execErr, duration)
    /\ dbLast' = [Called("Do", d) EXCEPT
                     !.err = Do(buildErr, isSlice, rowsCount, execErr),
                     !.duration = duration, !.isSlice = isSlice,
                     !.buildErr = buildErr, !.execErr = execErr,
                     !.rowsCount = rowsCount,
                     !.appended = IF isSlice THEN rowsCount ELSE 0]

CallClear(d, rollbackErr) ==
    /\ ClearEffect(d, rollbackErr)
    /\ dbLast' = [Called("Clear", d) EXCEPT
                     !.err = Clear(db[d], caches, rollbackErr).err]

CallClose(d, rollbackErr) ==
    CloseEffect(d, rollbackErr) /\ dbLast' = Called("Close", d)

CallResetConsumedTime(d) ==
    ResetEffect(d) /\ dbLast' = Called("ResetConsumedTime", d)

CallSetEnabled(d, id, flag) ==
    SetEnabledEffect(d, id, flag) /\ dbLast' = Called("SetEnabled", d)

CallSetSize(d, id, size) ==
    SetSizeEffect(d, id, size) /\ dbLast' = Called("SetSize", d)

DBNext ==
    \/ CallBegin(Original)
    \/ \E text \in SqlTexts, buildErr \in {NilError, BuildError},
          isSlice \in BOOLEAN, rowsCount \in 0..MaxRows,
          execErr \in ExecAnswers, duration \in 0..MaxElapsed :
           CallDo(Original, text, buildErr, isSlice, rowsCount, execErr, duration)
    \/ \E rollbackErr \in RollbackAnswers : CallClear(Original, rollbackErr)
    \/ \E rollbackErr \in RollbackAnswers : CallClose(Original, rollbackErr)
    \/ CallResetConsumedTime(Original)
    \/ \E id \in CacheIds, flag \in BOOLEAN : CallSetEnabled(Original, id, flag)
    \/ \E id \in CacheIds, size \in 1..MaxCacheSize :
           CallSetSize(Original, id, size)

CondUnused ==
    /\ pending = [sql |-> <<>>, args |-> <<>>]
    /\ held = ZeroCondition
    /\ last = NoCall

InitDB == DBInit /\ CondUnused

SpecDB == InitDB /\ [][DBNext]_vars

(* SpecClone: the original and its clone.  Statements are run on a slice    *)
(* record, take no time or the longest time, and fail only when they cannot *)
(* be run.                                                                  *)

\* what the pipeline answers on d when the driver itself does not fail
ExecAnswer(d) ==
    IF db[d].sqlTx = "done" THEN ErrTxDone
    ELSE IF ~connOpen THEN DriverError
    ELSE NilError

StepClone == CloneEffect /\ UNCHANGED dbLast
StepBegin(d) == BeginEffect(d) /\ UNCHANGED dbLast
StepDo(d, text, duration) ==
    DoEffect(d, text, NilError, TRUE, 0, ExecAnswer(d), duration)
        /\ UNCHANGED dbLast
StepClear(d, rollbackErr) == ClearEffect(d, rollbackErr) /\ UNCHANGED dbLast
StepReset(d) == ResetEffect(d) /\ UNCHANGED dbLast
StepSetEnabled(d, id, flag) == SetEnabledEffect(d, id, flag) /\ UNCHANGED dbLast
StepSetSize(d, id, size) == SetSizeEffect(d, id, size) /\ UNCHANGED dbLast

CloneNext ==
    \/ StepClone
    \/ \E d \in DBIds : StepBegin(d)
    \/ \E d \in DBIds, text \in SqlTexts, duration \in {0, MaxElapsed} :
           StepDo(d, text, duration)
    \/ \E d \in DBIds, rollbackErr \in RollbackAnswers : StepClear(d, rollbackErr)
    \/ \E d \in DBIds : StepReset(d)
    \/ \E d \in DBIds, id \in CacheIds, flag \in BOOLEAN : StepSetEnabled(d, id, flag)
    \/ \E d \in DBIds, id \in CacheIds, size \in 1..MaxCacheSize :
           StepSetSize(d, id, size)

SpecClone == InitDB /\ [][CloneNext]_vars

\* the step is some operation of SpecClone on the object d
ActsOn(d) ==
    \/ BeginEffect(d)
    \/ \E text \in SqlTexts, duration \in {0, MaxElapsed} :
           DoEffect(d, text, NilError, TRUE, 0, ExecAnswer(d), duration)
    \/ \E rollbackErr \in RollbackAnswers : ClearEffect(d, rollbackErr)
    \/ ResetEffect(d)
    \/ \E id \in CacheIds, flag \in BOOLEAN : SetEnabledEffect(d, id, flag)
    \/ \E id \in CacheIds, size \in 1..MaxCacheSize : SetSizeEffect(d, id, size)

----------------------------------------------------------------------------
(* Claims about RawSQL.Do and the DB facade, checked under SpecDB *)

\* C5: Do on a single (non-slice) record returns sql.ErrNoRows when the
\* statement runs without error and returns no row; on a slice record no
\* row gives a nil error and nothing appended to the collection; an error
\* from building the record description or from the execution is returned
\* as it is.
C5_DoNoRows ==
    dbLast.op = "Do" =>
        /\ dbLast.buildErr # NilError => dbLast.err = dbLast.buildErr
        /\ (dbLast.buildErr = NilError /\ dbLast.execErr # NilError) =>
               dbLast.err = dbLast.execErr
        /\ (dbLast.buildErr = NilError /\ dbLast.execErr = NilError
                /\ dbLast.rowsCount = 0) =>
               IF dbLast.isSlice
               THEN dbLast.err = NilError /\ dbLast.appended = 0
               ELSE dbLast.err = ErrNoRows

\* a statement ran without error for a slice record and returned no row
C5_Witness ==
    /\ dbLast.op = "Do"
    /\ dbLast.buildErr = NilError /\ dbLast.execErr = NilError
    /\ dbLast.isSlice /\ dbLast.rowsCount = 0
    /\ dbLast.err = NilError

\* C6: after a Clear that returns no error the DB has no open transaction,
\* neither of its two statement caches holds a prepared statement, and the
\* connection is as it was.
C6_ClearFreesBothCaches ==
    (dbLast.op = "Clear" /\ dbLast.err = NilError) =>
        /\ db[dbLast.on].sqlTx # "open"
        /\ caches[db[dbLast.on].stmtCacheDB].stmts = {}
        /\ caches[db[dbLast.on].stmtCacheTx].stmts = {}
        /\ connOpen = dbLast.connWas

\* C8: the consumed time of a DB object never decreases except by
\* ResetConsumedTime, which sets it to zero; it changes only by the elapsed
\* time an execution adds or by ResetConsumedTime; and it is greater than
\* zero after an execution that took time.
C8_ConsumedTimeMonotonic ==
    [][\A d \in DBIds :
         LET before == db[d].consumedTime
             after == db'[d].consumedTime
             reset == dbLast'.op = "ResetConsumedTime" /\ dbLast'.on = d
             ran == dbLast'.op = "Do" /\ dbLast'.on = d
                        /\ dbLast'.buildErr = NilError
         IN db[d].live =>
                /\ after >= before \/ reset
                /\ after # before =>
                       \/ reset
                       \/ ran /\ after = before + dbLast'.duration
                /\ reset => after = 0
                /\ (ran /\ dbLast'.duration > 0) => after > 0
      ]_vars

\* an execution that took time has added to time consumed before it
C8_Witness ==
    /\ dbLast.op = "Do"
    /\ dbLast.duration > 0
    /\ db[dbLast.on].consumedTime > dbLast.duration

----------------------------------------------------------------------------
(* Claim about Clone, checked under SpecClone *)

\* what a caller can observe of the object d: its transaction, its consumed
\* time and its two caches
View(d) ==
    [sqlTx |-> db[d].sqlTx, consumedTime |-> db[d].consumedTime,
     stmtCacheDB |-> caches[db[d].stmtCacheDB],
     stmtCacheTx |-> caches[db[d].stmtCacheTx]]

\* C7: the clone has no transaction, consumed time zero and two newly
\* created caches with the size and the enabled flag of the original's
\* corresponding caches; Clone leaves the original unchanged; and no
\* step that is not an operation on an object changes its transaction, its
\* caches or its consumed time: operations on the clone leave the original
\* as it is, and the other way round.
C7_CloneIsIndependent ==
    [][/\ CloneEffect =>
            LET o == db'[Original]
                c == db'[TheClone]
            IN /\ c.live /\ c.sqlTx = "nil" /\ c.consumedTime = 0
               /\ c.stmtCacheDB # c.stmtCacheTx
               /\ {c.stmtCacheDB, c.stmtCacheTx}
                      \cap {o.stmtCacheDB, o.stmtCacheTx} = {}
               /\ caches'[c.stmtCacheDB] =
                      [caches'[o.stmtCacheDB] EXCEPT !.stmts = {}]
               /\ caches'[c.stmtCacheTx] =
                      [caches'[o.stmtCacheTx] EXCEPT !.stmts = {}]
               /\ View(Original)' = View(Original)
       /\ \A d \in DBIds :
              db[d].live =>
                  \/ View(d)' = View(d)
                  \/ ActsOn(d)
                  \/ d = TheClone /\ CloneEffect
      ]_vars

\* the clone was made of an original with a transaction, consumed time, a
\* cached statement and caches set up differently from the default, and has
\* since run a statement in a transaction of its own
C7_Witness ==
    /\ db[TheClone].live
    /\ db[Original].sqlTx = "open" /\ db[Original].consumedTime > 0
    /\ caches[db[Original].stmtCacheDB].enabled
    /\ caches[db[Original].stmtCacheTx].size # DefaultCacheSize
    /\ caches[db[Original].stmtCacheTx].stmts # {}
    /\ caches[db[TheClone].stmtCacheDB].enabled
    /\ caches[db[TheClone].stmtCacheTx].size # DefaultCacheSize
    /\ db[TheClone].sqlTx = "open" /\ db[TheClone].consumedTime > 0
    /\ caches[db[TheClone].stmtCacheTx].stmts # {}
    /\ caches[db[TheClone].stmtCacheDB].stmts = {}

====
